---------------------------- MODULE Spec2Model ----------------------------
(***************************************************************************)
(* Behavioural model of sound_alarm.py: the SoundLevelAlarm object, its    *)
(* background monitor-loop thread(s) and the foreground thread that calls  *)
(* the public methods.                                                     *)
(*                                                                         *)
(* Time is counted in ticks of the calibration sleep (0.1 s).  dB values   *)
(* are whole decibels, rounded down.  A step of a thread is one statement  *)
(* (or one blocking call) of the source; steps of different threads        *)
(* interleave freely, as CPython threads do.                               *)
(***************************************************************************)
EXTENDS Integers, Sequences, FiniteSets, TLC

(***************************************************************************)
(* Bounds of the model.                                                    *)
(***************************************************************************)
MaxTime == 3
    \* last clock value explored
MaxStarts == 2
    \* streams (and monitor threads) that start_monitoring can create
ChunkLen == 2
    \* chunk_size: samples per buffer
UpdateInterval == 1
    \* update_interval, in ticks
Duration == 2
    \* the duration argument of calculate_ambient_noise, in ticks

(***************************************************************************)
(* Program constants.                                                      *)
(***************************************************************************)
FullScale == 32767
DbOffset == 96
CalSleep == 1

Samples == {0, 1, 256}
    \* sample values the input device delivers (signed 16-bit)
Thresholds == {0, 5, 70}
    \* values given to threshold_db (70 is the default)
Cooldowns == {-1, 0, 1}
    \* values given to cooldown_time
Threads == 1..MaxStarts
None == 0
    \* self.stream before any successful open

VARIABLES
    threshold_db, cooldown_time, running, current_db, last_alarm_time, stream,
    pa_terminated, stream_state, opened,
    clock,
    fpc, start_ret, start_time, db_values, fwake, cal_ret,
    mpc, current_time, time_since_last_alarm, mwake, alarm_out,
    stop_called, late_reads, close_calls, cal_seen,
    ever_fired, recorded, cooldown_changed, read_failed,
    epc, audio_data, sq_sum,
    asked_threshold, asked_cooldown

fields == <<threshold_db, cooldown_time, running, current_db, last_alarm_time, stream>>
audio == <<pa_terminated, stream_state, opened>>
fg == <<fpc, start_ret, start_time, db_values, fwake, cal_ret>>
mon == <<mpc, current_time, time_since_last_alarm, mwake, alarm_out>>
ghost == <<stop_called, late_reads, close_calls, cal_seen, ever_fired, recorded,
           cooldown_changed, read_failed>>
est == <<epc, audio_data, sq_sum>>
asked == <<asked_threshold, asked_cooldown>>
vars == <<fields, audio, clock, fg, mon, ghost, est, asked>>

Min(a, b) == IF a < b THEN a ELSE b
Max(a, b) == IF a > b THEN a ELSE b

RECURSIVE SumSeq(_)
SumSeq(s) == IF s = <<>> THEN 0 ELSE Head(s) + SumSeq(Tail(s))

(***************************************************************************)
(* Level estimator: _get_db_level.                                         *)
(***************************************************************************)
Wrap16(v) == ((v + 32768) % 65536) - 32768
    \* a value stored in a numpy int16

Square(x) == Wrap16(x * x)
    \* np.square on an int16 array keeps the int16 dtype

RECURSIVE SumSquares(_)
SumSquares(buf) ==
    IF buf = <<>> THEN 0 ELSE Square(Head(buf)) + SumSquares(Tail(buf))
    \* np.mean accumulates the squares in float64: their exact sum

\* DbCut[k]: the least whole power p with DbOffset + 10*log10(p / FullScale^2) >= k
DbCut ==
    << 1, 1, 1, 1, 1, 2, 2, 2, 3, 3, 4, 5, 6, 7, 9, 11, 14, 18, 22, 27, 34, 43,
       54, 68, 86, 108, 136, 171, 215, 270, 340, 428, 539, 678, 853, 1074, 1352,
       1702, 2143, 2697, 3396, 4275, 5382, 6775, 8529, 10737, 13517, 17017,
       21423, 26970, 33953, 42744, 53812, 67745, 85286, 107368, 135168, 170167,
       214227, 269696, 339527, 427439, 538113, 677444, 852852, 1073677, 1351679,
       1701663, 2142266, 2696953, 3395263, 4274383, 5381129, 6774440, 8528514,
       10736763, 13516784, 17016623, 21422659, 26969530, 33952626, 42743823,
       53811285, 67744395, 85285140, 107367629, 135167837, 170166225, 214226584,
       269695291, 339526255, 427438230, 538112850, 677443941, 852851392,
       FullScale * FullScale >>

\* (a variant whose reference level is 1 instead of 32767: 96 + 10*log10 of
\* the power, rounded down to ten dB)
DbPositive_ref1(power) ==
    DbOffset + 10 * Cardinality({k \in 1..9 : 10^k <= Max(power, 1)})

\* 96 + 20*log10(max(rms, 1) / 32767) in whole dB, for rms = sqrt(power); a
\* level above 96 dB (a power above 32767^2) counts as 97
DbPositive(power) ==
    Cardinality({k \in 1..DbOffset : DbCut[k] <= Max(power, 1)})
       + (IF power > FullScale * FullScale THEN 1 ELSE 0)

\* The value _get_db_level returns for a buffer that was read.
get_db_level(buf) ==
    LET square_sum == SumSquares(buf)
    IN  IF square_sum <= 0 THEN 0
        ELSE Max(0, DbPositive(square_sum \div Len(buf)))

\* The value _get_db_level returns when the read raised.
ReadError == 0

Buffers == [1..ChunkLen -> Samples]

\* What _get_db_level returns for the buffers the device can deliver, and
\* what one call of it on an active stream can return.
BufferReadings == {get_db_level(buf) : buf \in Buffers}
Readings == BufferReadings \cup {ReadError}

(***************************************************************************)
(* Alarm policy: the two operands of the condition of _monitor_loop.       *)
(***************************************************************************)
\* (a variant that also fires at the threshold)
ExceedsThreshold_at(db, threshold) == db >= threshold

ExceedsThreshold(db, threshold) == db > threshold

\* (a variant that also fires when exactly the cooldown has passed)
CooldownElapsed_at(since, cooldown) == since >= cooldown

CooldownElapsed(since, cooldown) == since > cooldown


(***************************************************************************)
(* Values returned by calculate_ambient_noise, and by _trigger_alarm's     *)
(* attempts.                                                               *)
(***************************************************************************)
NoResult == [kind |-> "unset", sum |-> 0, len |-> 0]
    \* no call has returned yet
Failure == [kind |-> "None", sum |-> 0, len |-> 0]
    \* return None
\* lines 184-186: avg_db = sum(db_values) / len(db_values), kept as the exact
\* quotient sum/len
Mean(values) == [kind |-> "avg", sum |-> SumSeq(values), len |-> Len(values)]

\* (a variant that keeps the readings that are 0)
Retained_all(db) == db >= 0

\* line 176: if db > 0 (the readings calculate_ambient_noise keeps)
Retained(db) == db > 0

\* What a subprocess.call does: the program plays, or it runs and exits with
\* an error status, or it is not installed (the call raises).
Outcomes == {"played", "failed", "missing"}
NoAlarm == [paplay |-> "untried", sox |-> "untried", bell |-> FALSE]
\* lines 113-135: paplay; on an exception SoX; on an exception the bell
trigger_alarm(paplay, sox) ==
    IF paplay # "missing"
    THEN [paplay |-> paplay, sox |-> "untried", bell |-> FALSE]
    ELSE IF sox # "missing"
         THEN [paplay |-> paplay, sox |-> sox, bell |-> FALSE]
         ELSE [paplay |-> paplay, sox |-> sox, bell |-> TRUE]


(***************************************************************************)
(* __init__ (with the arguments __main__ read from the user).  The clock   *)
(* counts from the epoch, as time.time() does; the program starts after it.*)
(***************************************************************************)
Init ==
    /\ threshold_db \in Thresholds
    /\ cooldown_time \in Cooldowns
    /\ running = FALSE
    /\ current_db = 0
    /\ last_alarm_time = 0
    /\ stream = None
    /\ pa_terminated = FALSE
    /\ stream_state = [s \in Threads |-> "unopened"]
    /\ opened = 0
    /\ clock = 1
    /\ fpc = "idle"
    /\ start_ret = "unset"
    /\ start_time = 0
    /\ db_values = <<>>
    /\ fwake = 0
    /\ cal_ret = NoResult
    /\ mpc = [t \in Threads |-> "unborn"]
    /\ current_time = [t \in Threads |-> 0]
    /\ time_since_last_alarm = [t \in Threads |-> 0]
    /\ mwake = [t \in Threads |-> 0]
    /\ alarm_out = [t \in Threads |-> NoAlarm]
    /\ stop_called = FALSE
    /\ late_reads = [t \in Threads |-> 0]
    /\ close_calls = [s \in Threads |-> 0]
    /\ cal_seen = <<>>
    /\ ever_fired = FALSE
    /\ recorded = FALSE
    /\ cooldown_changed = FALSE
    /\ read_failed = [t \in Threads |-> FALSE]
    /\ epc = "idle"
    /\ audio_data = <<>>
    /\ sq_sum = 0
    /\ asked_threshold = threshold_db
    /\ asked_cooldown = cooldown_time

(***************************************************************************)
(* time.time() advances.                                                   *)
(***************************************************************************)
Tick ==
    /\ clock < MaxTime
    /\ clock' = clock + 1
    /\ UNCHANGED <<fields, audio, fg, mon, ghost>>
    /\ UNCHANGED <<est, asked>>

(***************************************************************************)
(* start_monitoring, on the foreground thread.                             *)
(***************************************************************************)
\* line 42: self.running = True
start_monitoring_call ==
    /\ fpc = "idle"
    /\ running' = TRUE
    /\ fpc' = "start_open"
    /\ UNCHANGED <<threshold_db, cooldown_time, current_db, last_alarm_time, stream>>
    /\ UNCHANGED <<start_ret, start_time, db_values, fwake, cal_ret>>
    /\ UNCHANGED <<audio, clock, mon, ghost>>
    /\ UNCHANGED <<est, asked>>

\* lines 44-51: self.stream = self.p.open(...).  The open raises when the
\* device cannot be opened, and always once self.p has been terminated.
start_monitoring_open ==
    /\ fpc = "start_open"
    /\ \/ /\ ~pa_terminated
          /\ opened < MaxStarts
          /\ opened' = opened + 1
          /\ stream' = opened + 1
          /\ stream_state' = [stream_state EXCEPT ![opened + 1] = "active"]
          /\ fpc' = "start_thread"
       \/ /\ fpc' = "start_except"
          /\ UNCHANGED <<stream, stream_state, opened>>
    /\ UNCHANGED <<threshold_db, cooldown_time, running, current_db, last_alarm_time>>
    /\ UNCHANGED <<start_ret, start_time, db_values, fwake, cal_ret>>
    /\ UNCHANGED <<pa_terminated, clock, mon, ghost>>
    /\ UNCHANGED <<est, asked>>

\* lines 54-59: the monitor thread is created and started, and returned; or
\* Thread.start() raises (no thread can be created) inside the try block.
start_monitoring_thread ==
    /\ fpc = "start_thread"
    /\ \/ /\ mpc' = [mpc EXCEPT ![stream] = "while"]
          /\ start_ret' = "thread"
          /\ fpc' = "idle"
       \/ /\ fpc' = "start_except"
          /\ UNCHANGED <<mpc, start_ret>>
    /\ UNCHANGED <<start_time, db_values, fwake, cal_ret>>
    /\ UNCHANGED <<current_time, time_since_last_alarm, mwake, alarm_out>>
    /\ UNCHANGED <<fields, audio, clock, ghost>>
    /\ UNCHANGED <<est, asked>>

\* (a variant that leaves self.running set)
start_monitoring_except_running ==
    /\ fpc = "start_except"
    /\ start_ret' = "None"
    /\ fpc' = "idle"
    /\ UNCHANGED <<start_time, db_values, fwake, cal_ret>>
    /\ UNCHANGED <<fields, audio, clock, mon, ghost>>
    /\ UNCHANGED <<est, asked>>

\* lines 60-64: except Exception: self.running = False; return None
start_monitoring_except ==
    /\ fpc = "start_except"
    /\ running' = FALSE
    /\ start_ret' = "None"
    /\ fpc' = "idle"
    /\ UNCHANGED <<threshold_db, cooldown_time, current_db, last_alarm_time, stream>>
    /\ UNCHANGED <<start_time, db_values, fwake, cal_ret>>
    /\ UNCHANGED <<audio, clock, mon, ghost>>
    /\ UNCHANGED <<est, asked>>

(***************************************************************************)
(* stop_monitoring, on the foreground thread.                              *)
(***************************************************************************)
\* lines 147-148: self.running = False; if self.stream:
stop_monitoring_call ==
    /\ fpc = "idle"
    /\ running' = FALSE
    /\ fpc' = IF stream # None THEN "stop_stream" ELSE "stop_terminate"
    /\ stop_called' = TRUE
    /\ UNCHANGED <<threshold_db, cooldown_time, current_db, last_alarm_time, stream>>
    /\ UNCHANGED <<start_ret, start_time, db_values, fwake, cal_ret>>
    /\ UNCHANGED <<late_reads, close_calls, cal_seen, ever_fired, recorded, cooldown_changed, read_failed>>
    /\ UNCHANGED <<audio, clock, mon>>
    /\ UNCHANGED <<est, asked>>

\* line 149: self.stream.stop_stream(), which returns at once on a stream
\* that is not running
stop_monitoring_stop_stream ==
    /\ fpc = "stop_stream"
    /\ stream_state' = [stream_state EXCEPT ![stream] =
                            IF @ = "active" THEN "stopped" ELSE @]
    /\ fpc' = "stop_close"
    /\ UNCHANGED <<start_ret, start_time, db_values, fwake, cal_ret>>
    /\ UNCHANGED <<pa_terminated, opened>>
    /\ UNCHANGED <<fields, clock, mon, ghost>>
    /\ UNCHANGED <<est, asked>>

\* line 150: self.stream.close()
stop_monitoring_close ==
    /\ fpc = "stop_close"
    /\ stream_state' = [stream_state EXCEPT ![stream] = "closed"]
    /\ close_calls' = [close_calls EXCEPT ![stream] = Min(@ + 1, 2)]
    /\ fpc' = "stop_terminate"
    /\ UNCHANGED <<start_ret, start_time, db_values, fwake, cal_ret>>
    /\ UNCHANGED <<pa_terminated, opened>>
    /\ UNCHANGED <<stop_called, late_reads, cal_seen, ever_fired, recorded, cooldown_changed, read_failed>>
    /\ UNCHANGED <<fields, clock, mon>>
    /\ UNCHANGED <<est, asked>>

\* lines 151-152: self.p.terminate(), which closes the streams of self.p that
\* are still open
stop_monitoring_terminate ==
    /\ fpc = "stop_terminate"
    /\ pa_terminated' = TRUE
    /\ stream_state' = [s \in Threads |->
                            IF stream_state[s] \in {"active", "stopped"}
                            THEN "closed" ELSE stream_state[s]]
    /\ close_calls' = [s \in Threads |->
                            IF stream_state[s] \in {"active", "stopped"}
                            THEN Min(close_calls[s] + 1, 2) ELSE close_calls[s]]
    /\ fpc' = "idle"
    /\ UNCHANGED <<start_ret, start_time, db_values, fwake, cal_ret>>
    /\ UNCHANGED opened
    /\ UNCHANGED <<stop_called, late_reads, cal_seen, ever_fired, recorded, cooldown_changed, read_failed>>
    /\ UNCHANGED <<fields, clock, mon>>
    /\ UNCHANGED <<est, asked>>

(***************************************************************************)
(* set_threshold and set_cooldown, on the foreground thread.               *)
(***************************************************************************)
\* (a variant whose assignment does not reach self.threshold_db)
set_threshold_lost(new_threshold) ==
    /\ fpc = "idle"
    /\ asked_threshold' = new_threshold
    /\ UNCHANGED <<fields, audio, clock, fg, mon, ghost>>
    /\ UNCHANGED <<est, asked_cooldown>>

\* lines 154-157
set_threshold(new_threshold) ==
    /\ fpc = "idle"
    /\ threshold_db' = new_threshold
    /\ asked_threshold' = new_threshold
    /\ UNCHANGED <<cooldown_time, running, current_db, last_alarm_time, stream>>
    /\ UNCHANGED <<audio, clock, fg, mon, ghost>>
    /\ UNCHANGED <<est, asked_cooldown>>

\* lines 159-162
set_cooldown(new_cooldown) ==
    /\ fpc = "idle"
    /\ cooldown_time' = new_cooldown
    /\ asked_cooldown' = new_cooldown
    /\ cooldown_changed' = TRUE
    /\ UNCHANGED <<threshold_db, running, current_db, last_alarm_time, stream>>
    /\ UNCHANGED <<stop_called, late_reads, close_calls, cal_seen, ever_fired, recorded, read_failed>>
    /\ UNCHANGED <<audio, clock, fg, mon>>
    /\ UNCHANGED <<est, asked_threshold>>


(***************************************************************************)
(* calculate_ambient_noise(Duration), on the foreground thread.            *)
(***************************************************************************)
\* lines 166-172.  The window is begun only if it ends by MaxTime.
calculate_ambient_noise_call ==
    /\ fpc = "idle"
    /\ IF stream = None
       THEN /\ cal_ret' = Failure
            /\ fpc' = "cal_done"
            /\ UNCHANGED <<start_time, db_values>>
       ELSE /\ clock + Duration <= MaxTime
            /\ start_time' = clock
            /\ db_values' = <<>>
            /\ fpc' = "cal_loop"
            /\ UNCHANGED cal_ret
    /\ cal_seen' = <<>>
    /\ UNCHANGED <<start_ret, fwake>>
    /\ UNCHANGED <<stop_called, late_reads, close_calls, ever_fired, recorded, cooldown_changed, read_failed>>
    /\ UNCHANGED <<fields, audio, clock, mon>>
    /\ UNCHANGED <<est, asked>>

\* line 174: while time.time() - start_time < duration; inside the window
\* line 175 issues the read (which raises at once on a stream that is not
\* active: db = 0), after it lines 180-186 return
calculate_ambient_noise_loop ==
    /\ fpc = "cal_loop"
    /\ IF clock - start_time < Duration
       THEN IF stream_state[stream] = "active"
            THEN /\ fpc' = "cal_reading"
                 /\ UNCHANGED <<db_values, fwake, cal_ret, cal_seen>>
            ELSE /\ db_values' = IF Retained(ReadError)
                                 THEN Append(db_values, ReadError) ELSE db_values
                 /\ cal_seen' = Append(cal_seen, ReadError)
                 /\ fwake' = clock + CalSleep
                 /\ fpc' = "cal_sleeping"
                 /\ UNCHANGED cal_ret
       ELSE /\ cal_ret' = IF db_values = <<>> THEN Failure ELSE Mean(db_values)
            /\ fpc' = "cal_done"
            /\ UNCHANGED <<db_values, fwake, cal_seen>>
    /\ UNCHANGED <<start_ret, start_time>>
    /\ UNCHANGED <<stop_called, late_reads, close_calls, ever_fired, recorded, cooldown_changed, read_failed>>
    /\ UNCHANGED <<fields, audio, clock, mon>>
    /\ UNCHANGED <<est, asked>>

\* lines 175-178: the read returns a buffer or raises; the reading is kept
\* if it is > 0; time.sleep(0.1) begins
calculate_ambient_noise_read ==
    /\ fpc = "cal_reading"
    /\ \E db \in Readings :
          /\ db_values' = IF Retained(db) THEN Append(db_values, db) ELSE db_values
          /\ cal_seen' = Append(cal_seen, db)
    /\ fwake' = clock + CalSleep
    /\ fpc' = "cal_sleeping"
    /\ UNCHANGED <<start_ret, start_time, cal_ret>>
    /\ UNCHANGED <<stop_called, late_reads, close_calls, ever_fired, recorded, cooldown_changed, read_failed>>
    /\ UNCHANGED <<fields, audio, clock, mon>>
    /\ UNCHANGED <<est, asked>>

\* line 178: time.sleep(0.1) returns
calculate_ambient_noise_wake ==
    /\ fpc = "cal_sleeping"
    /\ clock >= fwake
    /\ fpc' = "cal_loop"
    /\ fwake' = 0
    /\ UNCHANGED <<start_ret, start_time, db_values, cal_ret>>
    /\ UNCHANGED <<fields, audio, clock, mon, ghost>>
    /\ UNCHANGED <<est, asked>>

\* The caller takes the returned value (lines 305-306, 336-337).
calculate_ambient_noise_return ==
    /\ fpc = "cal_done"
    /\ fpc' = "idle"
    /\ cal_ret' = NoResult
    /\ db_values' = <<>>
    /\ start_time' = 0
    /\ cal_seen' = <<>>
    /\ UNCHANGED <<start_ret, fwake>>
    /\ UNCHANGED <<stop_called, late_reads, close_calls, ever_fired, recorded, cooldown_changed, read_failed>>
    /\ UNCHANGED <<fields, audio, clock, mon>>
    /\ UNCHANGED <<est, asked>>

(***************************************************************************)
(* _monitor_loop, on monitor thread t.                                     *)
(***************************************************************************)
\* line 80: time.sleep(self.update_interval) begins; the locals of the cycle
\* are dead
Sleep(t) ==
    /\ mpc' = [mpc EXCEPT ![t] = "sleeping"]
    /\ mwake' = [mwake EXCEPT ![t] = Min(clock + UpdateInterval, MaxTime)]
    /\ current_time' = [current_time EXCEPT ![t] = 0]
    /\ time_since_last_alarm' = [time_since_last_alarm EXCEPT ![t] = 0]

\* (a variant that loops whatever self.running is)
monitor_while_forever(t) ==
    /\ mpc[t] = "while"
    /\ mpc' = [mpc EXCEPT ![t] = "read"]
    /\ UNCHANGED <<current_time, time_since_last_alarm, mwake, alarm_out>>
    /\ UNCHANGED <<fields, audio, clock, fg, ghost>>
    /\ UNCHANGED <<est, asked>>

\* line 68: while self.running
monitor_while(t) ==
    /\ mpc[t] = "while"
    /\ mpc' = [mpc EXCEPT ![t] = IF running THEN "read" ELSE "done"]
    /\ UNCHANGED <<current_time, time_since_last_alarm, mwake, alarm_out>>
    /\ UNCHANGED <<fields, audio, clock, fg, ghost>>
    /\ UNCHANGED <<est, asked>>

\* lines 69, 86: self.stream.read(...) is issued; on a stream that is not
\* active it raises at once and _get_db_level returns 0 (lines 107-109)
monitor_read(t) ==
    /\ mpc[t] = "read"
    /\ IF stream_state[stream] = "active"
       THEN /\ mpc' = [mpc EXCEPT ![t] = "reading"]
            /\ UNCHANGED <<current_db, read_failed>>
       ELSE /\ mpc' = [mpc EXCEPT ![t] = "compare"]
            /\ current_db' = ReadError
            /\ read_failed' = [read_failed EXCEPT ![t] = TRUE]
    /\ late_reads' = [late_reads EXCEPT ![t] = IF stop_called THEN Min(@ + 1, 2) ELSE @]
    /\ UNCHANGED <<threshold_db, cooldown_time, running, last_alarm_time, stream>>
    /\ UNCHANGED <<current_time, time_since_last_alarm, mwake, alarm_out>>
    /\ UNCHANGED <<stop_called, close_calls, cal_seen, ever_fired, recorded, cooldown_changed>>
    /\ UNCHANGED <<audio, clock, fg>>
    /\ UNCHANGED <<est, asked>>

\* (a variant in which the exception of a failed read ends the thread)
monitor_read_done_raises(t) ==
    /\ mpc[t] = "reading"
    /\ \/ /\ \E db \in BufferReadings : current_db' = db
          /\ mpc' = [mpc EXCEPT ![t] = "compare"]
          /\ UNCHANGED read_failed
       \/ /\ mpc' = [mpc EXCEPT ![t] = "done"]
          /\ read_failed' = [read_failed EXCEPT ![t] = TRUE]
          /\ UNCHANGED current_db
    /\ UNCHANGED <<threshold_db, cooldown_time, running, last_alarm_time, stream>>
    /\ UNCHANGED <<current_time, time_since_last_alarm, mwake, alarm_out>>
    /\ UNCHANGED <<stop_called, late_reads, close_calls, cal_seen, ever_fired, recorded,
                   cooldown_changed>>
    /\ UNCHANGED <<audio, clock, fg>>
    /\ UNCHANGED <<est, asked>>

\* lines 86-109, 69-70: the read returns a buffer, or raises; a read that a
\* stop or close overtook does either
monitor_read_done(t) ==
    /\ mpc[t] = "reading"
    /\ \/ /\ \E db \in BufferReadings : current_db' = db
          /\ UNCHANGED read_failed
       \/ /\ current_db' = ReadError
          /\ read_failed' = [read_failed EXCEPT ![t] = TRUE]
    /\ mpc' = [mpc EXCEPT ![t] = "compare"]
    /\ UNCHANGED <<threshold_db, cooldown_time, running, last_alarm_time, stream>>
    /\ UNCHANGED <<current_time, time_since_last_alarm, mwake, alarm_out>>
    /\ UNCHANGED <<stop_called, late_reads, close_calls, cal_seen, ever_fired, recorded,
                   cooldown_changed>>
    /\ UNCHANGED <<audio, clock, fg>>
    /\ UNCHANGED <<est, asked>>

\* lines 70-75: the reading (and any read error) has been printed;
\* current_time, time_since_last_alarm, and the left operand
\* self.current_db > self.threshold_db
monitor_compare(t) ==
    /\ mpc[t] = "compare"
    /\ IF ExceedsThreshold(current_db, threshold_db)
       THEN /\ mpc' = [mpc EXCEPT ![t] = "cooldown"]
            /\ current_time' = [current_time EXCEPT ![t] = clock]
            /\ time_since_last_alarm' =
                   [time_since_last_alarm EXCEPT ![t] = clock - last_alarm_time]
            /\ UNCHANGED mwake
       ELSE Sleep(t)
    /\ read_failed' = [read_failed EXCEPT ![t] = FALSE]
    /\ UNCHANGED alarm_out
    /\ UNCHANGED <<stop_called, late_reads, close_calls, cal_seen, ever_fired, recorded,
                   cooldown_changed>>
    /\ UNCHANGED <<fields, audio, clock, fg>>
    /\ UNCHANGED <<est, asked>>

\* (a variant that restarts the cooldown timer in a cycle that is suppressed)
monitor_cooldown_restarts(t) ==
    /\ mpc[t] = "cooldown"
    /\ IF CooldownElapsed(time_since_last_alarm[t], cooldown_time)
       THEN /\ mpc' = [mpc EXCEPT ![t] = "trigger"]
            /\ UNCHANGED <<current_time, time_since_last_alarm, mwake, last_alarm_time>>
       ELSE /\ Sleep(t)
            /\ last_alarm_time' = current_time[t]
    /\ UNCHANGED alarm_out
    /\ UNCHANGED <<threshold_db, cooldown_time, running, current_db, stream>>
    /\ UNCHANGED <<audio, clock, fg, ghost>>
    /\ UNCHANGED <<est, asked>>

\* line 75: the right operand time_since_last_alarm > self.cooldown_time
monitor_cooldown(t) ==
    /\ mpc[t] = "cooldown"
    /\ IF CooldownElapsed(time_since_last_alarm[t], cooldown_time)
       THEN /\ mpc' = [mpc EXCEPT ![t] = "trigger"]
            /\ UNCHANGED <<current_time, time_since_last_alarm, mwake>>
       ELSE Sleep(t)
    /\ UNCHANGED alarm_out
    /\ UNCHANGED <<fields, audio, clock, fg, ghost>>
    /\ UNCHANGED <<est, asked>>

\* lines 76-77: self._trigger_alarm()
monitor_trigger(t) ==
    /\ mpc[t] = "trigger"
    /\ \E paplay \in Outcomes, sox \in Outcomes :
          alarm_out' = [alarm_out EXCEPT ![t] = trigger_alarm(paplay, sox)]
    /\ mpc' = [mpc EXCEPT ![t] = "record"]
    /\ ever_fired' = TRUE
    /\ UNCHANGED <<current_time, time_since_last_alarm, mwake>>
    /\ UNCHANGED <<stop_called, late_reads, close_calls, cal_seen, recorded, cooldown_changed, read_failed>>
    /\ UNCHANGED <<fields, audio, clock, fg>>
    /\ UNCHANGED <<est, asked>>

\* line 78: self.last_alarm_time = current_time; then line 80
monitor_record(t) ==
    /\ mpc[t] = "record"
    /\ last_alarm_time' = current_time[t]
    /\ alarm_out' = [alarm_out EXCEPT ![t] = NoAlarm]
    /\ Sleep(t)
    /\ recorded' = TRUE
    /\ cooldown_changed' = FALSE
    /\ UNCHANGED <<threshold_db, cooldown_time, running, current_db, stream>>
    /\ UNCHANGED <<stop_called, late_reads, close_calls, cal_seen, ever_fired, read_failed>>
    /\ UNCHANGED <<audio, clock, fg>>
    /\ UNCHANGED <<est, asked>>

\* line 80: time.sleep returns, not before update_interval has passed (at
\* MaxTime the clock no longer moves and the sleep returns)
monitor_wake(t) ==
    /\ mpc[t] = "sleeping"
    /\ clock >= mwake[t]
    /\ mpc' = [mpc EXCEPT ![t] = "while"]
    /\ mwake' = [mwake EXCEPT ![t] = 0]
    /\ UNCHANGED <<current_time, time_since_last_alarm, alarm_out>>
    /\ UNCHANGED <<fields, audio, clock, fg, ghost>>
    /\ UNCHANGED <<est, asked>>

monitor_loop(t) ==
    \/ monitor_while(t)
    \/ monitor_read(t)
    \/ monitor_read_done(t)
    \/ monitor_compare(t)
    \/ monitor_cooldown(t)
    \/ monitor_trigger(t)
    \/ monitor_record(t)
    \/ monitor_wake(t)


(***************************************************************************)
(* The calls in progress on the foreground thread, and the monitor threads.*)
(***************************************************************************)
Foreground ==
    \/ start_monitoring_open
    \/ start_monitoring_thread
    \/ start_monitoring_except
    \/ stop_monitoring_stop_stream
    \/ stop_monitoring_close
    \/ stop_monitoring_terminate
    \/ calculate_ambient_noise_loop
    \/ calculate_ambient_noise_read
    \/ calculate_ambient_noise_wake
    \/ calculate_ambient_noise_return

Monitor == \E t \in Threads : monitor_loop(t)

(***************************************************************************)
(* __main__: one start_monitoring; if it failed, exit(1); otherwise the    *)
(* commands t, c and a until q; stop_monitoring in the finally clause.     *)
(***************************************************************************)
\* line 297
main_start ==
    /\ start_ret = "unset"
    /\ ~stop_called
    /\ start_monitoring_call

\* lines 303-310, 319-342: the commands t<number>, c<number> and a
main_command ==
    /\ start_ret = "thread"
    /\ ~stop_called
    /\ \/ \E x \in Thresholds : set_threshold(x)
       \/ \E y \in Cooldowns : set_cooldown(y)
       \/ calculate_ambient_noise_call

\* lines 298-300, 321-322, 347-349: exit(1) or q, then the finally clause
main_finally ==
    /\ start_ret # "unset"
    /\ ~stop_called
    /\ stop_monitoring_call

\* lines 344-349: Ctrl-C while start_monitoring or calculate_ambient_noise is
\* running abandons the call; the finally clause calls stop_monitoring
KeyboardInterrupt ==
    /\ fpc \in {"start_open", "start_thread", "start_except",
                "cal_loop", "cal_reading", "cal_sleeping", "cal_done"}
    /\ ~stop_called
    /\ running' = FALSE
    /\ fpc' = IF stream # None THEN "stop_stream" ELSE "stop_terminate"
    /\ stop_called' = TRUE
    /\ start_time' = 0
    /\ db_values' = <<>>
    /\ fwake' = 0
    /\ cal_ret' = NoResult
    /\ cal_seen' = <<>>
    /\ UNCHANGED start_ret
    /\ UNCHANGED <<threshold_db, cooldown_time, current_db, last_alarm_time, stream>>
    /\ UNCHANGED <<late_reads, close_calls, ever_fired, recorded, cooldown_changed, read_failed>>
    /\ UNCHANGED <<audio, clock, mon>>
    /\ UNCHANGED <<est, asked>>

Next ==
    \/ main_start
    \/ main_command
    \/ main_finally
    \/ KeyboardInterrupt
    \/ Foreground
    \/ Monitor
    \/ Tick

\* The program as __main__ runs it.
Spec == Init /\ [][Next]_vars

(***************************************************************************)
(* A caller of the class that calls start_monitoring and stop_monitoring   *)
(* in any order.                                                           *)
(***************************************************************************)
ApiNext ==
    \/ start_monitoring_call
    \/ stop_monitoring_call
    \/ start_monitoring_open
    \/ start_monitoring_thread
    \/ start_monitoring_except
    \/ stop_monitoring_stop_stream
    \/ stop_monitoring_close
    \/ stop_monitoring_terminate
    \/ Monitor
    \/ Tick

\* The object is constructed with one pair of arguments.
ApiInit == Init /\ threshold_db = 0 /\ cooldown_time = 0

ApiSpec == ApiInit /\ [][ApiNext]_vars

(***************************************************************************)
(* One call self.current_db = self._get_db_level() (line 69) on a stream   *)
(* that delivers any buffer of signed 16-bit samples, step by step.        *)
(***************************************************************************)
EstSamples == {-32768, -32767, -182, -1, 0, 1, 181, 256, 32767}
EstBuffers == [1..ChunkLen -> EstSamples]

\* lines 86-88: the read returns a buffer; or it raises, and lines 107-109
\* return 0
est_read ==
    /\ epc = "idle"
    /\ \/ /\ \E buf \in EstBuffers : audio_data' = buf
          /\ epc' = "square"
          /\ UNCHANGED current_db
       \/ /\ current_db' = ReadError
          /\ epc' = "failed"
          /\ UNCHANGED audio_data
    /\ UNCHANGED sq_sum
    /\ UNCHANGED <<threshold_db, cooldown_time, running, last_alarm_time, stream>>
    /\ UNCHANGED <<audio, clock, fg, mon, ghost, asked>>

\* line 92: np.mean(np.square(audio_data)), held as the sum of the squares
est_square ==
    /\ epc = "square"
    /\ sq_sum' = SumSquares(audio_data)
    /\ epc' = "test"
    /\ UNCHANGED audio_data
    /\ UNCHANGED <<fields, audio, clock, fg, mon, ghost, asked>>

\* lines 93-94: if square_sum <= 0: return 0
est_silent ==
    /\ epc = "test"
    /\ sq_sum <= 0
    /\ current_db' = 0
    /\ epc' = "silent"
    /\ UNCHANGED <<audio_data, sq_sum>>
    /\ UNCHANGED <<threshold_db, cooldown_time, running, last_alarm_time, stream>>
    /\ UNCHANGED <<audio, clock, fg, mon, ghost, asked>>

\* lines 96-106: return max(0, db_positive)
est_return ==
    /\ epc = "test"
    /\ sq_sum > 0
    /\ current_db' = get_db_level(audio_data)
    /\ epc' = "returned"
    /\ UNCHANGED <<audio_data, sq_sum>>
    /\ UNCHANGED <<threshold_db, cooldown_time, running, last_alarm_time, stream>>
    /\ UNCHANGED <<audio, clock, fg, mon, ghost, asked>>

EstNext ==
    \/ est_read
    \/ est_square
    \/ est_silent
    \/ est_return

EstSpec == ApiInit /\ [][EstNext]_vars

(***************************************************************************)
(* A caller of the class that keeps the object after stop_monitoring: the  *)
(* calls __main__ makes, and calculate_ambient_noise called again once     *)
(* stop_monitoring has been called.                                        *)
(***************************************************************************)
late_calculate_ambient_noise ==
    /\ stop_called
    /\ calculate_ambient_noise_call

LibNext ==
    \/ Next
    \/ late_calculate_ambient_noise

LibSpec == Init /\ [][LibNext]_vars

(***************************************************************************)
(* The program with its threads scheduled: a monitor thread that can take  *)
(* a step eventually takes it, a call in progress on the foreground thread *)
(* proceeds, and time passes.                                              *)
(***************************************************************************)
Fairness ==
    /\ \A t \in Threads : WF_vars(monitor_loop(t))
    /\ WF_vars(Foreground)
    /\ WF_vars(Tick)

LiveSpec == Spec /\ Fairness


(***************************************************************************)
(* Properties.                                                             *)
(***************************************************************************)
\* Thread t finishes the step it is at.
Leaves(t, at) == mpc[t] = at /\ mpc'[t] # at

\* C1: in every cycle of the monitor loop the alarm is triggered if and only
\* if current_db > threshold_db and now - last_alarm_time > cooldown_time,
\* both strictly: the cycle goes on to the cooldown test exactly when the
\* reading exceeds the threshold, triggers exactly when the time since the
\* last alarm (the cycle's timestamp minus last_alarm_time) exceeds the
\* cooldown, and triggers in no other way.
C1_TriggerIff ==
    [][\A t \in Threads :
          /\ Leaves(t, "compare") =>
                /\ mpc'[t] = "cooldown" <=> current_db > threshold_db
                /\ mpc'[t] = "cooldown" =>
                      /\ current_time'[t] = clock
                      /\ time_since_last_alarm'[t] = clock - last_alarm_time
          /\ Leaves(t, "cooldown") =>
                (mpc'[t] = "trigger" <=> time_since_last_alarm[t] > cooldown_time)
          /\ (mpc'[t] = "trigger" /\ mpc[t] # "trigger") => mpc[t] = "cooldown"
      ]_vars

\* A cycle triggers: its reading is above the threshold and the time since
\* the last alarm above the cooldown.
C1_Witness ==
    \E t \in Threads :
       /\ mpc[t] = "trigger"
       /\ current_db > threshold_db
       /\ time_since_last_alarm[t] > cooldown_time

\* C2: while no alarm has ever fired, the cooldown test never suppresses a
\* trigger: a cycle whose reading exceeded the threshold fires, whatever the
\* time is.
C2_FirstAlarmNotSuppressed ==
    [][\A t \in Threads :
          (Leaves(t, "cooldown") /\ ~ever_fired) => mpc'[t] = "trigger"
      ]_vars

\* C3: while cooldown_time stays at a value c >= 0, two consecutive triggers
\* are recorded at timestamps more than c apart, and an evaluation at the
\* timestamp of the last trigger does not fire.
C3_TriggersSpaced ==
    [][\A t \in Threads :
          /\ (Leaves(t, "record") /\ recorded /\ ~cooldown_changed /\ cooldown_time >= 0)
                => last_alarm_time' - last_alarm_time > cooldown_time
          /\ (Leaves(t, "cooldown") /\ recorded /\ cooldown_time >= 0
                  /\ current_time[t] = last_alarm_time)
                => mpc'[t] # "trigger"
      ]_vars

\* A second trigger is about to be recorded, the cooldown (1 tick) unchanged
\* since the trigger before it.
C3_Witness ==
    \E t \in Threads :
       /\ mpc[t] = "record"
       /\ recorded
       /\ ~cooldown_changed
       /\ cooldown_time = 1
       /\ current_time[t] - last_alarm_time > cooldown_time

\* C4: last_alarm_time changes only in the step that records a trigger, in a
\* cycle whose alarm fired, and becomes that cycle's timestamp; no step of
\* the foreground thread (set_threshold, set_cooldown,
\* calculate_ambient_noise) and no cycle that does not fire changes it.
C4_TimerOnlyOnTrigger ==
    [][/\ last_alarm_time' # last_alarm_time =>
             \E t \in Threads :
                /\ Leaves(t, "record")
                /\ alarm_out[t] # NoAlarm
                /\ last_alarm_time' = current_time[t]
       /\ \A t \in Threads :
             (mpc'[t] = "record" /\ mpc[t] # "record") => mpc[t] = "trigger"
       /\ (fpc' # fpc \/ threshold_db' # threshold_db \/ cooldown_time' # cooldown_time
             \/ cal_seen' # cal_seen) => last_alarm_time' = last_alarm_time
      ]_vars

\* After a trigger was recorded, a later cycle has ended below the threshold
\* and the timer still holds the trigger's timestamp.
C4_Witness ==
    \E t \in Threads :
       /\ recorded
       /\ last_alarm_time > 0
       /\ clock > last_alarm_time
       /\ mpc[t] = "sleeping"
       /\ mwake[t] > last_alarm_time + UpdateInterval
       /\ current_db <= threshold_db

\* C5: once stop_monitoring has been called the monitor loop issues no
\* further read on the input stream, and never a read on a closed stream.
C5_NoReadAfterStop ==
    [][\A t \in Threads :
          Leaves(t, "read") => (~stop_called /\ stream_state[stream] # "closed")
      ]_vars

\* C6: over any sequence of start_monitoring and stop_monitoring calls no
\* stream is closed more than once, and when stop_monitoring has returned no
\* stream that was opened is still open.
C6_ClosedExactlyOnce ==
    /\ \A s \in Threads : close_calls[s] <= 1
    /\ (stop_called /\ fpc = "idle") =>
          \A s \in Threads : stream_state[s] \in {"unopened", "closed"}

\* No monitor thread is running its loop any more.
LoopsEnded == \A t \in Threads : mpc[t] \in {"unborn", "done"}

\* C7: after stop_monitoring is called every monitor loop eventually ends,
\* and after the running flag was cleared a loop begins (issues the read of)
\* at most one further cycle.
C7_StopEndsLoop ==
    /\ stop_called ~> LoopsEnded
    /\ [](\A t \in Threads : late_reads[t] <= 1)

\* The loop has ended after a stop that caught it between the test of the
\* flag and the read: it began one cycle after the flag was cleared.
C7_Witness ==
    \E t \in Threads : stop_called /\ mpc[t] = "done" /\ late_reads[t] = 1

\* C8: when the device cannot be opened, start_monitoring does not raise but
\* returns None (the except clause is entered with no stream held, and the
\* call returns None from it); once it has returned None the running flag is
\* false and no monitor thread exists, so that no cycle is ever executed.
C8_OpenFailure ==
    /\ (fpc = "start_except" /\ stream = None) => start_ret = "unset"
    /\ start_ret = "None" =>
          /\ ~running
          /\ \A t \in Threads : mpc[t] = "unborn"

\* start_monitoring has just returned None after the open failed.
C8_Witness == start_ret = "None" /\ fpc = "idle" /\ stream = None /\ ~stop_called

\* C9: a failed read is not fatal: the cycle records 0 dB and goes on; and
\* until stop_monitoring is called every cycle is followed by another one,
\* whatever reads and alarm attempts fail: unless stop_monitoring is called,
\* a thread that was started issues a read again and again, and sleeps
\* between its cycles again and again.
C9_LoopGoesOn ==
    /\ [][\A t \in Threads :
             /\ (Leaves(t, "read") \/ Leaves(t, "reading")) =>
                   mpc'[t] \in {"reading", "compare"}
             /\ read_failed'[t] => (mpc'[t] = "compare" /\ current_db' = 0)
             /\ Leaves(t, "trigger") => mpc'[t] = "record"
         ]_vars
    /\ \A t \in Threads :
          /\ []<>(stop_called \/ mpc[t] = "unborn" \/ mpc[t] = "read")
          /\ []<>(stop_called \/ mpc[t] = "unborn" \/ mpc[t] = "sleeping")

\* A read has failed while monitoring runs, and the cycle goes on with 0 dB.
C9_Witness ==
    \E t \in Threads : read_failed[t] /\ mpc[t] = "compare" /\ ~stop_called /\ ever_fired

\* The readings of the calibration window that are not 0.
NotZero(db) == db # 0
Kept == SelectSeq(cal_seen, NotZero)

\* C10: calculate_ambient_noise returns the mean of exactly the readings of
\* its window that were not 0 (for readings of one positive value v: v), and
\* None when there is none; a mean it returns is positive.
C10_MeanOfNonZero ==
    fpc = "cal_done" =>
       /\ cal_ret = IF Kept = <<>> THEN Failure
                    ELSE [kind |-> "avg", sum |-> SumSeq(Kept), len |-> Len(Kept)]
       /\ cal_ret.kind = "avg" =>
             /\ cal_ret.sum > 0
             /\ \A v \in Readings :
                   (\A i \in 1..Len(Kept) : Kept[i] = v) => cal_ret.sum = v * cal_ret.len

\* A calibration returns a mean after it discarded a reading of 0.
C10_Witness ==
    /\ fpc = "cal_done"
    /\ cal_ret.kind = "avg"
    /\ Len(cal_seen) > cal_ret.len

\* The input stream is open: it was opened and has not been closed.
StreamOpen == stream # None /\ stream_state[stream] \in {"active", "stopped"}

\* C11: whenever the input stream is not open (never opened, open failed, or
\* closed by stop_monitoring), a call of calculate_ambient_noise returns the
\* failure value at once: it enters no sampling loop, so it attempts no read
\* and waits for nothing.
C11_FailsFastWithoutStream ==
    [][(fpc = "idle" /\ fpc' \in {"cal_loop", "cal_done"} /\ ~StreamOpen)
          => (fpc' = "cal_done" /\ cal_ret' = Failure)
      ]_vars

\* C12: calibration and monitoring never acquire from the input device at
\* the same time: no read issued by a monitor thread and read issued by
\* calculate_ambient_noise are in progress together.
C12_NoConcurrentReads ==
    ~(fpc = "cal_reading" /\ \E t \in Threads : mpc[t] = "reading")

\* C13: threshold_db and cooldown_time are non-negative numbers in every
\* state, whatever the constructor was given and whatever the setters and
\* the commands t<number> and c<number> were given.
C13_NonNegativeSettings ==
    /\ threshold_db >= 0
    /\ cooldown_time >= 0

\* C16: _trigger_alarm returns to the monitor loop whatever happens; the
\* mechanisms are tried in the order paplay, SoX, bell, a later one only
\* after the earlier ones failed; and when neither paplay nor SoX played
\* (missing, or run and exited with an error), the bell is emitted.
C16_BellWhenAllFailed ==
    \A t \in Threads :
       mpc[t] = "record" =>
          /\ alarm_out[t].paplay # "untried"
          /\ alarm_out[t].sox # "untried" => alarm_out[t].paplay \in {"failed", "missing"}
          /\ alarm_out[t].bell =>
                /\ alarm_out[t].paplay \in {"failed", "missing"}
                /\ alarm_out[t].sox \in {"failed", "missing"}
          /\ (alarm_out[t].paplay # "played" /\ alarm_out[t].sox # "played")
                => alarm_out[t].bell

\* C17: a change of the threshold or of the cooldown takes effect on the
\* next evaluation: self.threshold_db and self.cooldown_time always hold the
\* value last given (by the constructor or by a setter that has returned),
\* every evaluation of the alarm condition decides with these values, and a
\* setter changes no other field of the object.
C17_SettersTakeEffect ==
    [][/\ threshold_db' = asked_threshold'
       /\ cooldown_time' = asked_cooldown'
       /\ \A t \in Threads :
             /\ Leaves(t, "compare") =>
                   (mpc'[t] = "cooldown" <=> current_db > asked_threshold)
             /\ Leaves(t, "cooldown") =>
                   (mpc'[t] = "trigger" <=> time_since_last_alarm[t] > asked_cooldown)
       /\ asked_threshold' # asked_threshold =>
             UNCHANGED <<cooldown_time, running, current_db, last_alarm_time, stream>>
       /\ asked_cooldown' # asked_cooldown =>
             UNCHANGED <<threshold_db, running, current_db, last_alarm_time, stream>>
      ]_vars

\* After an alarm was recorded, set_cooldown was called, and a later
\* evaluation fires because the time since that alarm exceeds the cooldown
\* now set.
C17_Witness ==
    \E t \in Threads :
       /\ mpc[t] = "trigger"
       /\ recorded
       /\ cooldown_changed
       /\ time_since_last_alarm[t] > asked_cooldown

\* The monitor threads that have been started and have not ended.
LiveLoops == {t \in Threads : mpc[t] \notin {"unborn", "done"}}

\* C19: over any sequence of start_monitoring and stop_monitoring calls at
\* most one monitor loop is live at any time, and once stop_monitoring has
\* been called no thread is started any more.
C19_SingleLoop ==
    [][/\ Cardinality(LiveLoops) <= 1
       /\ stop_called => \A t \in Threads : mpc[t] = "unborn" => mpc'[t] = "unborn"
      ]_vars

\* C20: once stop_monitoring has returned, no alarm is triggered and
\* last_alarm_time is not written, whatever cycle of the monitor loop was in
\* progress when it was called.
C20_QuietAfterStop ==
    [][(stop_called /\ fpc = "idle") =>
          /\ last_alarm_time' = last_alarm_time
          /\ \A t \in Threads : ~Leaves(t, "trigger")
      ]_vars

\* C14: for every buffer of signed 16-bit samples and for every failed read
\* _get_db_level returns a value from 0 to 96, so that current_db is from 0
\* to 96 in every state.
C14_LevelInRange == current_db \in 0..DbOffset

\* _get_db_level has returned a positive level for a buffer that holds the
\* most negative sample.
C14_Witness ==
    /\ epc = "returned"
    /\ current_db > 0
    /\ \E i \in 1..Len(audio_data) : audio_data[i] = -32768

\* Every sample of the buffer is at full scale.
FullScaleBuffer ==
    /\ audio_data # <<>>
    /\ \A i \in 1..Len(audio_data) : audio_data[i] \in {FullScale, -FullScale}

\* C15: for a buffer whose samples are all +32767 or -32767, _get_db_level
\* returns 96.
C15_FullScaleIs96 ==
    (epc \in {"silent", "returned"} /\ FullScaleBuffer) => current_db = DbOffset

\* Every sample of the buffer is 0.
AllZero == \A i \in 1..Len(audio_data) : audio_data[i] = 0

\* C18: the power _get_db_level computes is the exact mean of the squared
\* samples: every square it sums is the exact square of its sample, the
\* sum is not negative, and the zero-power return of 0 dB is taken exactly for
\* the buffers whose samples are all 0.
C18_ExactPower ==
    /\ epc \in {"test", "silent", "returned"} =>
          /\ \A i \in 1..Len(audio_data) :
                Square(audio_data[i]) = audio_data[i] * audio_data[i]
          /\ sq_sum >= 0
    /\ epc = "silent" => AllZero
    /\ epc = "returned" => ~AllZero

=============================================================================
